---- MODULE Spec2Model ----
(***************************************************************************)
(* The D4 2.74-bit lattice codebook of lib/codebook/deprecated/            *)
(* latticed4_274bit.py: grid construction, the truncated grid, the         *)
(* combination table, quantize (encode) and by_idxs (decode).              *)
(*                                                                         *)
(* Every real number is held as an integer count of quarter units, so the  *)
(* half-integer 1/2 is 2, 3/2 is 6, and an input component 0.25 is 1.      *)
(* A squared norm or a dot product is therefore held times 16.  The code   *)
(* works in float32; every value that occurs here (quarter-unit inputs of  *)
(* small magnitude, half-integer grid points) is exact in float32.         *)
(***************************************************************************)
EXTENDS Integers, Sequences, FiniteSets, TLC

VARIABLES
    pc,            \* where the client (or the constructor) stands
    X,             \* quantize: the input vector
    X_part,        \* quantize: the sign-factored input
    mask,          \* quantize: the sign mask
    Xqidx,         \* quantize: the index found in the truncated grid
    vals,          \* quantize: the reconstructed vector returned
    real_idx,      \* quantize: the code returned
    idxs,          \* by_idxs: the code passed in
    out,           \* by_idxs: the vector returned, or IndexError
    im_i,          \* iterate_mask: the row the loop fills next
    allcombo_tab   \* iterate_mask: allcombo_idx, its rows

vars == <<pc, X, X_part, mask, Xqidx, vals, real_idx, idxs, out,
          im_i, allcombo_tab>>

(***************************************************************************)
(* Module constants and get_grid                                           *)
(***************************************************************************)

\* _D4274B_CODESZ = 4
CODESZ == 4

\* self.idx_offset = -2**15
idx_offset == -(2^15)

Dims == 1..CODESZ

\* A sequence given by a rule, held as an explicit tuple.
Tabulate(f) == f \o <<>>

\* hintr = torch.arange(-14, 14) + 1/2, in quarter units
hintr == Tabulate([i \in 1..28 |-> 4 * ((i - 1) - 14) + 2])

\* Row k (0-based) of torch.cartesian_prod(hintr, hintr, hintr, hintr):
\* the first factor varies slowest.
cartesian_prod(k) ==
    <<hintr[(k \div (28 * 28 * 28)) + 1],
      hintr[((k \div (28 * 28)) % 28) + 1],
      hintr[((k \div 28) % 28) + 1],
      hintr[(k % 28) + 1]>>

Dot(a, b) == a[1] * b[1] + a[2] * b[2] + a[3] * b[3] + a[4] * b[4]

Sum4(a) == a[1] + a[2] + a[3] + a[4]

\* gd4m2 = (gd4.sum(dim=-1) % 2 == 0): the sum is an even integer,
\* i.e. a multiple of 8 quarter units.
gd4m2(g) == Sum4(g) % 8 = 0

\* A changed gd4n: the bound 9 of the module docstring in place of 27.
gd4n_norm9(g) == Dot(g, g) <= 9 * 16

\* gd4n = gd4.norm(dim=-1)**2 <= 27, squared norm held times 16.  A squared
\* norm here is an odd integer; in float32 sqrt(27)**2 is 26.999998, so
\* the points of squared norm 27 are kept, as they are with exact numbers.
gd4n(g) == Dot(g, g) <= 27 * 16

InGrid(g) == gd4m2(g) /\ gd4n(g)

\* gd4 = torch.cartesian_prod(*[hintr] * 4), all 28^4 rows in order.
gd4 == [k \in 1..(28 * 28 * 28 * 28) |-> cartesian_prod(k - 1)]

\* d4 = gd4[torch.where(gd4m2 * gd4n)[0]]: the kept rows, in row order.
get_grid == SelectSeq(gd4, InGrid)

\* _D4274B_CACHED and self.grid
grid == get_grid

\* _D4274B_NORM_CACHED = torch.diag(grid @ grid.T)
grid_norm == Tabulate([i \in 1..Len(grid) |-> Dot(grid[i], grid[i])])

(***************************************************************************)
(* D4274B_codebook.__init__ (build_truncated=True), round, iterate_mask    *)
(***************************************************************************)

\* (grid[:, 1:] < 0).sum(dim=-1)
NegCountTail(g) == Cardinality({j \in 2..CODESZ : g[j] < 0})

\* grid[:, 1:].min(dim=-1).values
MinTail(g) == CHOOSE m \in {g[j] : j \in 2..CODESZ} :
                  \A j \in 2..CODESZ : m <= g[j]

\* A changed InGridPart: components 1..3 all positive, one point per orbit
\* of the even sign flips.
InGridPart_nonneg(g) == \A j \in 2..CODESZ : g[j] > 0

\* The selection of the truncated grid: at most one negative entry among
\* components 1..3, and their minimum >= -0.5 (-2 quarter units).
InGridPart(g) == NegCountTail(g) <= 1 /\ MinTail(g) >= -2

\* grid_part = grid[idxs]
grid_part == SelectSeq(grid, InGridPart)

\* grid_part_norm = torch.diag(grid_part @ grid_part.T)
grid_part_norm ==
    Tabulate([i \in 1..Len(grid_part) |-> Dot(grid_part[i], grid_part[i])])

\* int_map = 2**torch.arange(_D4274B_CODESZ)
int_map == <<2^0, 2^1, 2^2, 2^3>>

\* A changed Scores: the factor 2 of the cross term left out.
Scores_no_double(Xv, G, GN) ==
    Tabulate([i \in 1..Len(G) |-> Dot(Xv, G[i]) - GN[i]])

\* 2 * X @ grid.T - grid_norm for one row X (held times 16).
Scores(Xv, G, GN) ==
    Tabulate([i \in 1..Len(G) |-> 2 * Dot(Xv, G[i]) - GN[i]])

\* argmax over S[lo..hi]: the first index (1-based here) of the largest
\* entry, as torch.argmax returns for exact ties.
RECURSIVE ArgMaxRange(_, _, _)
ArgMaxRange(S, lo, hi) ==
    IF lo = hi THEN lo
    ELSE LET mid == (lo + hi) \div 2
             l == ArgMaxRange(S, lo, mid)
             r == ArgMaxRange(S, mid + 1, hi)
         IN  IF S[r] > S[l] THEN r ELSE l

ArgMax(S) == ArgMaxRange(S, 1, Len(S))

\* round(X, grid, grid_norm)[1]: Xqidx, 0-based as in the code.
round_idx(Xv, G, GN) == ArgMax(Scores(Xv, G, GN)) - 1

\* round(X, grid, grid_norm)[0]: grid[Xqidx]
round_val(Xv, G, GN) == G[round_idx(Xv, G, GN) + 1]

\* .to(torch.int16): two's-complement wrap to 16 bits.
ToInt16(v) == ((v + 2^15) % 2^16) - 2^15

\* Bit j (0-based) of i: ((torch.tensor([i]) & bmask) > 0).int()
Bit(i, j) == (i \div 2^j) % 2

\* flips before the parity filter: row i (0-based) of the stacked bit rows.
flip_bits(i) == <<Bit(i, 0), Bit(i, 1), Bit(i, 2), Bit(i, 3)>>

\* raw_idx = torch.where(flips.sum(dim=-1) % 2 == 0)[0]
EvenBits(i) == Sum4(flip_bits(i)) % 2 = 0

raw_idx == SelectSeq([i \in 1..(2^CODESZ) |-> i - 1], EvenBits)

\* flips = 1 - 2 * flips[raw_idx]; row r is 0-based.
flips(r) ==
    LET b == flip_bits(raw_idx[r + 1])
    IN  <<1 - 2 * b[1], 1 - 2 * b[2], 1 - 2 * b[3], 1 - 2 * b[4]>>

\* idx_map = zeros(2**codesz); idx_map[raw_idx[i]] = i.  Indexed by the
\* 0-based mask integer; entries never written stay 0.
idx_map ==
    [m \in 0..(2^CODESZ - 1) |->
        IF \E i \in 1..Len(raw_idx) : raw_idx[i] = m
        THEN (CHOOSE i \in 1..Len(raw_idx) : raw_idx[i] = m) - 1
        ELSE 0]

Mul(a, b) == <<a[1] * b[1], a[2] * b[2], a[3] * b[3], a[4] * b[4]>>

\* allcombo[r][t] = flips[r] * grid_part[t]
allcombo(r, t) == Mul(flips(r), grid_part[t + 1])

\* allcombo_idx[r][t] =
\*   (round(allcombo[r], grid, grid_norm)[1] + idx_offset).to(int16)
allcombo_idx(r, t) ==
    ToInt16(round_idx(allcombo(r, t), grid, grid_norm) + idx_offset)

(***************************************************************************)
(* quantize and by_idxs                                                    *)
(***************************************************************************)

Abs(v) == IF v < 0 THEN -v ELSE v

\* A changed X_odd: zero components counted as negative.
X_odd_nonpos(Xv) == Cardinality({j \in Dims : Xv[j] <= 0}) % 2 # 0

\* (X < 0).sum(dim=-1) % 2 != 0
X_odd(Xv) == Cardinality({j \in Dims : Xv[j] < 0}) % 2 # 0

\* A changed abs_part: the first component not negated for odd rows.
abs_part_no_parity(Xv) == <<Abs(Xv[1]), Abs(Xv[2]), Abs(Xv[3]), Abs(Xv[4])>>

\* X_part = torch.abs(X); X_part[X_odd, 0] = -X_part[X_odd, 0]
abs_part(Xv) ==
    <<IF X_odd(Xv) THEN -Abs(Xv[1]) ELSE Abs(Xv[1]),
      Abs(Xv[2]), Abs(Xv[3]), Abs(Xv[4])>>

\* 1 - 2 * (X < 0)
Sign(v) == IF v < 0 THEN -1 ELSE 1

\* A changed sign_mask: the first entry not negated for odd rows.
sign_mask_no_parity(Xv) == <<Sign(Xv[1]), Sign(Xv[2]), Sign(Xv[3]), Sign(Xv[4])>>

\* mask = 1 - 2 * (X < 0); mask[X_odd, 0] = -mask[X_odd, 0]
sign_mask(Xv) ==
    <<IF X_odd(Xv) THEN -Sign(Xv[1]) ELSE Sign(Xv[1]),
      Sign(Xv[2]), Sign(Xv[3]), Sign(Xv[4])>>

\* A changed to_int: the bit weights in the opposite order.
to_int_reversed(m) == int_map[4] * m[1] + int_map[3] * m[2]
                      + int_map[2] * m[3] + int_map[1] * m[4]

\* to_int(mask) = (int_map * mask.int()).sum(dim=-1)
to_int(m) == int_map[1] * m[1] + int_map[2] * m[2]
             + int_map[3] * m[3] + int_map[4] * m[4]

\* A changed MaskBits: the opposite bit convention, (1 + mask) / 2.
MaskBits_inverted(m) ==
    <<(1 + m[1]) \div 2, (1 + m[2]) \div 2, (1 + m[3]) \div 2, (1 + m[4]) \div 2>>

\* (1 - mask) / 2
MaskBits(m) ==
    <<(1 - m[1]) \div 2, (1 - m[2]) \div 2, (1 - m[3]) \div 2, (1 - m[4]) \div 2>>

\* real_idx = allcombo_idx[idx_map[to_int((1 - mask) / 2)], Xqidx]
lookup_real_idx(m, t) == allcombo_idx(idx_map[to_int(MaskBits(m))], t)

\* quantize(X): what it returns, and its locals.
quantize(Xv) ==
    LET xp == abs_part(Xv)
        m == sign_mask(Xv)
        t == round_idx(xp, grid_part, grid_part_norm)
        roundout == grid_part[t + 1]
    IN  [X_part |-> xp,
         mask |-> m,
         Xqidx |-> t,
         vals |-> Mul(roundout, m),
         real_idx |-> lookup_real_idx(m, t)]

IndexError == "IndexError"

\* A changed TensorIndex: a negative index raises.
TensorIndex_no_wrap(T, i) ==
    IF i >= 0 /\ i < Len(T) THEN T[i + 1] ELSE IndexError

\* Indexing a tensor of n rows with i: a negative i counts from the end,
\* anything outside [-n, n) raises.
TensorIndex(T, i) ==
    IF i >= 0 /\ i < Len(T) THEN T[i + 1]
    ELSE IF i < 0 /\ i >= -Len(T) THEN T[Len(T) + i + 1]
    ELSE IndexError

\* The int32 range of idxs.int().
MaxInt32 == 2147483647
MinInt32 == -MaxInt32 - 1

\* idxs.int() - self.idx_offset in int32 arithmetic: the difference wraps
\* around when it passes MaxInt32 (idx_offset is negative).  Every code
\* tried is an int32 already, so .int() itself changes nothing.
SubOffsetInt32(c) ==
    IF c > MaxInt32 + idx_offset
    THEN MinInt32 + ((c - MaxInt32) - idx_offset - 1)
    ELSE c - idx_offset

\* A changed by_idxs: the offset added, not subtracted.
by_idxs_add_offset(c) == TensorIndex(grid, c + idx_offset)

\* by_idxs(idxs) = grid[idxs.int() - idx_offset]
by_idxs(c) == TensorIndex(grid, SubOffsetInt32(c))

(***************************************************************************)
(* Inputs                                                                  *)
(***************************************************************************)

\* Bounds of the inputs that are tried.
MaxFine == 2
MaxCoarse == 1
CodeMargin == 4

None == "None"

\* Input vectors of quantize: every quarter-unit vector with components in
\* -MaxFine..MaxFine; every vector with components a multiple of 7 quarter
\* units (1.75) up to MaxCoarse steps; and vectors with components among
\* -5.25, -2.25, 0.25 and 3.25, most of them outside the codebook.
FineInputs == {<<a, b, c, d>> : a \in (-MaxFine)..MaxFine, b \in (-MaxFine)..MaxFine,
                                c \in (-MaxFine)..MaxFine, d \in (-MaxFine)..MaxFine}
CoarseInputs == {<<7 * a, 7 * b, 7 * c, 7 * d>> :
                    a \in (-MaxCoarse)..MaxCoarse, b \in (-MaxCoarse)..MaxCoarse,
                    c \in (-MaxCoarse)..MaxCoarse, d \in (-MaxCoarse)..MaxCoarse}
FarVals == {-21, -9, 1, 13}
FarInputs == {<<a, b, c, d>> : a \in FarVals, b \in FarVals,
                               c \in FarVals, d \in FarVals}
Inputs == FineInputs \cup CoarseInputs \cup FarInputs

\* Codes handed to by_idxs: the valid range with a margin on both sides, a
\* window around the lower end of the range of negative indices, and the
\* ends of the int32 and int16 ranges.
Codes ==
    ((idx_offset - CodeMargin)..(idx_offset + Len(grid) - 1 + CodeMargin))
    \cup ((idx_offset - Len(grid) - CodeMargin)..(idx_offset - Len(grid) + CodeMargin))
    \cup {MaxInt32, MaxInt32 + idx_offset, MaxInt32 + idx_offset + 1,
          MinInt32, 2^15 - 1, 0}

NegCount(m) == Cardinality({j \in Dims : m[j] < 0})

\* The sign masks quantize can build: an even number of -1 entries.
EvenMasks == {m \in {<<a, b, c, d>> : a \in {-1, 1}, b \in {-1, 1},
                                      c \in {-1, 1}, d \in {-1, 1}} :
                 NegCount(m) % 2 = 0}

\* allcombo_idx.shape[0:2]
NRows == Len(raw_idx)
NCols == Len(grid_part)

\* A constructed codebook: iterate_mask has returned.
Built == "built"

(***************************************************************************)
(* Spec: a client calls quantize(x), then decodes the code it got.  The    *)
(* codebook is constructed; quantize reads allcombo_idx through            *)
(* allcombo_idx(r, t), the entry iterate_mask wrote.                       *)
(***************************************************************************)

Init ==
    /\ pc = "call_quantize"
    /\ X \in Inputs
    /\ X_part = None
    /\ mask = None
    /\ Xqidx = None
    /\ vals = None
    /\ real_idx = None
    /\ idxs = None
    /\ out = None
    /\ im_i = Built
    /\ allcombo_tab = Built

\* quantize(X, return_idx=True)
Quantize ==
    /\ pc = "call_quantize"
    /\ \E q \in {quantize(X)} :
           /\ X_part' = q.X_part
           /\ mask' = q.mask
           /\ Xqidx' = q.Xqidx
           /\ vals' = q.vals
           /\ real_idx' = q.real_idx
    /\ pc' = "quantized"
    /\ UNCHANGED <<X, idxs, out, im_i, allcombo_tab>>

\* The client decodes the code quantize returned: by_idxs(real_idx).
Decode ==
    /\ pc = "quantized"
    /\ idxs' = real_idx
    /\ out' = by_idxs(real_idx)
    /\ pc' = "decoded"
    /\ UNCHANGED <<X, X_part, mask, Xqidx, vals, real_idx, im_i, allcombo_tab>>

Next == Quantize \/ Decode

Spec == Init /\ [][Next]_vars

(***************************************************************************)
(* SpecDecode: a client calls by_idxs(c) on a code of its own, then        *)
(* re-encodes the vector it got.                                           *)
(***************************************************************************)

InitDecode ==
    /\ pc = "call_by_idxs"
    /\ idxs \in Codes
    /\ X = None
    /\ X_part = None
    /\ mask = None
    /\ Xqidx = None
    /\ vals = None
    /\ real_idx = None
    /\ out = None
    /\ im_i = Built
    /\ allcombo_tab = Built

\* by_idxs(idxs)
ByIdxs ==
    /\ pc = "call_by_idxs"
    /\ out' = by_idxs(idxs)
    /\ pc' = "looked_up"
    /\ UNCHANGED <<X, X_part, mask, Xqidx, vals, real_idx, idxs, im_i, allcombo_tab>>

\* quantize(by_idxs(idxs)), when by_idxs returned a vector.
Requantize ==
    /\ pc = "looked_up"
    /\ out # IndexError
    /\ \E q \in {quantize(out)} :
           /\ X' = out
           /\ X_part' = q.X_part
           /\ mask' = q.mask
           /\ Xqidx' = q.Xqidx
           /\ vals' = q.vals
           /\ real_idx' = q.real_idx
    /\ pc' = "requantized"
    /\ UNCHANGED <<idxs, out, im_i, allcombo_tab>>

NextDecode == ByIdxs \/ Requantize

SpecDecode == InitDecode /\ [][NextDecode]_vars

(***************************************************************************)
(* SpecBuild: the loop of iterate_mask that fills allcombo_idx row by row, *)
(* then the two-level lookup of quantize (its line that reads the table)   *)
(* on the table the loop built.                                            *)
(***************************************************************************)

\* allcombo_idx = torch.zeros(allcombo.shape[0:2], dtype=int16)
InitBuild ==
    /\ pc = "iterate_mask"
    /\ im_i = 0
    /\ allcombo_tab = [r \in 1..NRows |-> [t \in 1..NCols |-> 0]]
    /\ X = None
    /\ X_part = None
    /\ mask = None
    /\ Xqidx = None
    /\ vals = None
    /\ real_idx = None
    /\ idxs = None
    /\ out = None

\* for i in range(len(allcombo)):
\*     allcombo_idx[i] = (round(allcombo[i], grid, grid_norm)[1]
\*                        + idx_offset).to(int16)
FillRow ==
    /\ pc = "iterate_mask"
    /\ im_i < NRows
    /\ allcombo_tab' = [allcombo_tab EXCEPT ![im_i + 1] =
                           Tabulate([t \in 1..NCols |-> allcombo_idx(im_i, t - 1)])]
    /\ im_i' = im_i + 1
    /\ UNCHANGED <<pc, X, X_part, mask, Xqidx, vals, real_idx, idxs, out>>

\* return allcombo_idx.cpu(), idx_map.cpu()
ReturnTables ==
    /\ pc = "iterate_mask"
    /\ im_i = NRows
    /\ pc' = Built
    /\ UNCHANGED <<X, X_part, mask, Xqidx, vals, real_idx, idxs, out,
                   im_i, allcombo_tab>>

\* Entry [r][t] of the table.
TableAt(r, t) == allcombo_tab[r + 1][t + 1]

\* real_idx = self.allcombo_idx[self.idx_map[self.to_int((1 - mask) / 2)], Xqidx]
\* for a mask and a truncated-grid index quantize can have found.
Lookup ==
    /\ pc = Built
    /\ \E m \in EvenMasks : \E t \in 0..(NCols - 1) :
        /\ mask' = m
        /\ Xqidx' = t
        /\ real_idx' = TableAt(idx_map[to_int(MaskBits(m))], t)
    /\ pc' = "lookup"
    /\ UNCHANGED <<X, X_part, vals, idxs, out, im_i, allcombo_tab>>

NextBuild == FillRow \/ ReturnTables \/ Lookup

SpecBuild == InitBuild /\ [][NextBuild]_vars

(***************************************************************************)
(* Reference notions the properties are stated with                        *)
(***************************************************************************)

Range(f) == {f[i] : i \in DOMAIN f}

\* Squared Euclidean distance (held times 16).
Dist2(a, b) == (a[1] - b[1]) * (a[1] - b[1]) + (a[2] - b[2]) * (a[2] - b[2])
               + (a[3] - b[3]) * (a[3] - b[3]) + (a[4] - b[4]) * (a[4] - b[4])

\* The squared distance of x to every full-grid point, in grid order.
Dists(x) == Tabulate([i \in 1..Len(grid) |-> Dist2(x, grid[i])])

\* The first index of the smallest entry of D[lo..hi].
RECURSIVE ArgMinRange(_, _, _)
ArgMinRange(D, lo, hi) ==
    IF lo = hi THEN lo
    ELSE LET mid == (lo + hi) \div 2
             l == ArgMinRange(D, lo, mid)
             r == ArgMinRange(D, mid + 1, hi)
         IN  IF D[r] < D[l] THEN r ELSE l

\* Brute-force nearest full-grid point, ties to the first in grid order.
BruteForceIn(D) == grid[ArgMinRange(D, 1, Len(D))]
BruteForce(x) == BruteForceIn(Dists(x))

\* Exactly one full-grid point is at the smallest distance.
UniqueMinIn(D, b) == \A i \in 1..Len(D) : D[i] = D[b] => i = b
UniqueNearestIn(D) == UniqueMinIn(D, ArgMinRange(D, 1, Len(D)))
UniqueNearest(x) == UniqueNearestIn(Dists(x))

AllNonzero(x) == \A j \in Dims : x[j] # 0

\* The components where a and b differ in sign.
SignMismatch(a, b) == {j \in Dims : Sign(a[j]) # Sign(b[j])}

\* c - idx_offset is a full-grid index.
ValidCode(c) == c >= idx_offset /\ c < idx_offset + Len(grid)

\* The full-grid indices the finished table holds.
TableImage == {TableAt(r, t) - idx_offset : r \in 0..(NRows - 1), t \in 0..(NCols - 1)}

\* The number of (r, t) that hold full-grid index k.
Preimages(k) ==
    Cardinality({rt \in (0..(NRows - 1)) \X (0..(NCols - 1)) :
                    TableAt(rt[1], rt[2]) - idx_offset = k})

(***************************************************************************)
(* Properties                                                              *)
(***************************************************************************)

\* C1: when quantize(x) returned (vals, code), by_idxs(code) is vals,
\* component for component, for even and odd counts of negative components.
C1_RoundTrip == pc = "decoded" => (out # IndexError /\ out = vals)

C1_Witness ==
    /\ pc = "decoded"
    /\ X_odd(X)
    /\ AllNonzero(X)
    /\ mask = <<1, -1, -1, 1>>
    /\ out # IndexError
    /\ out = vals

\* C2: for every code c of the valid range, quantize(by_idxs(c)) returns
\* (by_idxs(c), c).
C2_FixedPoint ==
    (pc = "requantized" /\ ValidCode(idxs)) => (vals = out /\ real_idx = idxs)

C2_Witness ==
    /\ pc = "requantized"
    /\ ValidCode(idxs)
    /\ X_odd(out)
    /\ vals = out
    /\ real_idx = idxs

\* C3 as stated: the vector quantize returns is the point the brute-force
\* search over the full grid returns, ties to the first in grid order.
C3_SameAsBruteForce == pc = "quantized" => vals = BruteForce(X)

\* C3 amended: when x has a single nearest full-grid point, the vector
\* quantize returns is the point the brute-force search returns.
C3_SameWhenUnique ==
    (pc = "quantized" /\ UniqueNearest(X)) => vals = BruteForce(X)

C3_Witness ==
    /\ pc = "quantized"
    /\ X_odd(X)
    /\ X \notin Range(grid)
    /\ UniqueNearest(X)
    /\ vals = BruteForce(X)

\* C4 as stated: in the finished table every full-grid index occurs at
\* exactly one (r, t), and |grid| = |flip patterns| * |grid_part|.
C4_Bijection ==
    pc = Built =>
        /\ TableImage = 0..(Len(grid) - 1)
        /\ Len(grid) = NRows * NCols
        /\ \A k \in 0..(Len(grid) - 1) : Preimages(k) = 1

\* C4 amended: in the finished table every full-grid index occurs at one
\* (r, t) at least, and |grid| < |flip patterns| * |grid_part|.
C4_Surjection ==
    pc = Built =>
        /\ TableImage = 0..(Len(grid) - 1)
        /\ Len(grid) < NRows * NCols

C4_Witness ==
    /\ pc = Built
    /\ TableImage = 0..(Len(grid) - 1)
    /\ Preimages(TableAt(0, 0) - idx_offset) > 1
    /\ \E k \in 0..(Len(grid) - 1) : Preimages(k) = 1

C6_SignsMatch ==
    (pc = "quantized" /\ AllNonzero(X) /\ X_odd(X)) =>
        SignMismatch(vals, X) = {}

\* C6 amended: for such x, at most one component of the returned vector
\* differs in sign from the same component of x.
C6_AtMostOneMismatch ==
    (pc = "quantized" /\ AllNonzero(X) /\ X_odd(X)) =>
        Cardinality(SignMismatch(vals, X)) <= 1

C6_Witness ==
    /\ pc = "quantized"
    /\ AllNonzero(X)
    /\ X_odd(X)
    /\ Cardinality(SignMismatch(vals, X)) = 1

\* C7 as stated: by_idxs(c) ends in an indexing error for every c whose
\* c - idx_offset is outside [0, |grid|), and returns grid[c - idx_offset]
\* for every c inside.
C7_ErrorOutside ==
    pc = "looked_up" =>
        IF ValidCode(idxs)
        THEN out # IndexError /\ out = grid[idxs - idx_offset + 1]
        ELSE out = IndexError

\* C7 amended: by_idxs(c) returns grid[c - idx_offset] when c - idx_offset
\* is in [0, |grid|), returns grid[|grid| + c - idx_offset] when it is in
\* [-|grid|, 0), and ends in an indexing error for every other int32 c.
C7_ErrorOutsideWrap ==
    pc = "looked_up" =>
        IF ValidCode(idxs)
        THEN out # IndexError /\ out = grid[idxs - idx_offset + 1]
        ELSE IF idxs < idx_offset /\ idxs >= idx_offset - Len(grid)
             THEN /\ out # IndexError
                  /\ out = grid[Len(grid) + (idxs - idx_offset) + 1]
             ELSE out = IndexError

C7_Witness ==
    /\ pc = "looked_up"
    /\ idxs = idx_offset - 1
    /\ out = grid[Len(grid)]

\* C8: the vector quantize returns is a full-grid point, and no full-grid
\* point is strictly nearer to x.
C8_Nearest ==
    pc = "quantized" =>
        /\ vals \in Range(grid)
        /\ \A i \in 1..Len(grid) : Dist2(X, grid[i]) >= Dist2(X, vals)

C8_Witness ==
    /\ pc = "quantized"
    /\ X_odd(X)
    /\ vals \in Range(grid)
    /\ vals \notin Range(grid_part)
    /\ X_part # X
    /\ Dist2(X, vals) > 0

\* C9: for every even sign mask m and every truncated-grid index t, the
\* full-grid point at allcombo_idx[idx_map[to_int((1 - m)/2)]][t] is
\* m * grid_part[t].
C9_TwoLevelExact ==
    pc = "lookup" =>
        TensorIndex(grid, real_idx - idx_offset) = Mul(mask, grid_part[Xqidx + 1])

C9_Witness ==
    /\ pc = "lookup"
    /\ mask = <<-1, -1, 1, 1>>
    /\ Xqidx = NCols - 1
    /\ TensorIndex(grid, real_idx - idx_offset) = Mul(mask, grid_part[Xqidx + 1])

\* C10: the mask quantize builds has an even number of -1 entries, its
\* integer is one iterate_mask wrote an idx_map entry for, and
\* mask * X_part is x.
C10_EvenMask ==
    pc = "quantized" =>
        /\ NegCount(mask) % 2 = 0
        /\ to_int(MaskBits(mask)) \in Range(raw_idx)
        /\ Mul(mask, X_part) = X

C10_Witness ==
    /\ pc = "quantized"
    /\ X_odd(X)
    /\ X[1] = 0
    /\ NegCount(mask) = 2
    /\ Mul(mask, X_part) = X

====
